---------------------------- MODULE Spec2Model ----------------------------
(***************************************************************************)
(* A model of the regex crate: lexer and recursive-descent parser          *)
(* (src/src/lexer.rs, src/src/parser.rs), Thompson construction of an NFA  *)
(* (Node::assemble, src/src/automaton/nfa.rs), subset construction of a    *)
(* DFA (src/src/automaton/dfa.rs) and the matcher (src/src/lib.rs).        *)
(*                                                                         *)
(* Representation.  A char is a one-character string.  Option<char> is a   *)
(* tuple: None is <<>> and Some(c) is <<c>>.  A Vec is a sequence, a       *)
(* HashSet a set, a HashMap a function (or, for the keyed transition       *)
(* tables, the set of its entries).  NFAState(n) and DFAState(n) are the   *)
(* number n.                                                               *)
(***************************************************************************)
EXTENDS Naturals, Sequences, FiniteSets, TLC

(***************************************************************************)
(* Bounds of the model.                                                    *)
(***************************************************************************)
\* longest pattern text handed to Regex::new
MaxPatternLen == 4
\* longest text handed to Regex::matches
MaxTextLen == 3
\* number of NFA states available to a hand-built NFA (NFAState(0) .. )
MaxNfaStates == 2
\* most transitions added to a hand-built NFA
MaxNfaTransitions == 2
\* longest slice handed to Context::get_state in the Context-only runs
MaxSliceLen == 2
\* NFA states available to the slices of the Context-only runs
MaxSliceStates == 2
\* longest pattern text of a Regex shared by two matches calls
MaxSharedPatternLen == 2
\* longest text handed to the second of two matches calls
MaxSecondTextLen == 2
\* longest pattern text of the runs that look at escapes
MaxEscapePatternLen == 3
\* longest text, over all the characters of patterns, of those runs
MaxAnyTextLen == 2
\* scans of a Lexer that return End before scanning stops
MaxEndScans == 2
\* NFA states of the NFAs that from_nfa is run on twice
MaxRunStates == 3
\* transitions of those NFAs
MaxRunTransitions == 4

\* the characters a pattern text is made of: two plain ones and every
\* character the lexer treats specially
PatternChars == {"a", "b", "|", "(", ")", "*", "\\"}
\* the characters of the texts that are matched
TextChars == {"a", "b"}
\* the characters labelling the transitions of a hand-built NFA
NfaChars == {"a", "b"}

SeqsUpTo(S, n) == UNION {[1..k -> S] : k \in 0..n}
Range(s) == {s[i] : i \in 1..Len(s)}

(***************************************************************************)
(* The state: the locals of Regex::new, DFA::from_nfa and Regex::matches,  *)
(* and pc, the position in them.                                           *)
(***************************************************************************)
VARIABLES
    pc,             \* position in Regex::new / from_nfa / matches
    pattern,        \* Regex::new: the pattern text
    node,           \* Regex::new: the tree returned by parse
    error,          \* Regex::new: the ParseError returned
    lex,            \* a Lexer used on its own: what is left of its source
    tokens,         \* the tokens its scan calls have returned, in order
    nfa,            \* Regex::new, from_nfa: the NFA
    nfa2,           \* the NFA of a second from_node run on the same tree
    context,        \* from_nfa: context (dfa.rs Context)
    start_states,   \* from_nfa: ret of the start closure, then start_states
    stack,          \* from_nfa: stack of the start closure
    start,          \* from_nfa: start
    waiting,        \* from_nfa: waiting
    visited,        \* from_nfa: visited
    expanded,       \* from_nfa: the ids of the sets popped from waiting, in order
    transition,     \* from_nfa: ret of the transition block
    symbol,         \* from_nfa: one per-symbol closure on its own: look_state,
                    \* chara, next_states, stack and the turns of its loop so far
    dfa,            \* the DFA returned by from_nfa (Regex.dfa)
    text,           \* matches: text
    current_state,  \* matches: current_state
    pos,            \* matches: number of characters of text consumed
    result,         \* matches: the value returned
    second,         \* a second matches call on the same Regex, running at the
                    \* same time: its position and its locals
    calls,          \* Context-only runs: the get_state calls made, <<slice, id>>
    earlier         \* the DFAs that earlier from_nfa runs on the same NFA returned

vars == <<pc, pattern, node, error, lex, tokens, nfa, nfa2, context, start_states, stack, start,
          waiting, visited, expanded, transition, symbol, dfa, text, current_state,
          pos, result, second, calls, earlier>>

(***************************************************************************)
(* lexer.rs                                                                *)
(***************************************************************************)
TokenCharacter(c) == <<"Character", c>>
UnionOp == <<"UnionOp">>
StarOp == <<"StarOp">>
LeftParen == <<"LeftParen">>
RightParen == <<"RightParen">>
End == <<"End">>

\* Lexer::new: the lexer is the rest of the source
LexerNew(src) == src

\* scan dropping the backslash and reading the character after it like any
\* other: an escaped operator character stays an operator
scan_escape_ignored(lexer) ==
    IF lexer = <<>>
    THEN [panic |-> FALSE, token |-> End, lexer |-> lexer]
    ELSE LET escaped == Head(lexer) = "\\"
             c == IF escaped /\ Tail(lexer) # <<>> THEN Head(Tail(lexer))
                  ELSE Head(lexer)
             rest == IF escaped /\ Tail(lexer) # <<>> THEN Tail(Tail(lexer))
                     ELSE Tail(lexer)
         IN  CASE escaped /\ Tail(lexer) = <<>> ->
                    [panic |-> TRUE, token |-> End, lexer |-> rest]
               [] c = "|" -> [panic |-> FALSE, token |-> UnionOp, lexer |-> rest]
               [] c = "(" -> [panic |-> FALSE, token |-> LeftParen, lexer |-> rest]
               [] c = ")" -> [panic |-> FALSE, token |-> RightParen, lexer |-> rest]
               [] c = "*" -> [panic |-> FALSE, token |-> StarOp, lexer |-> rest]
               [] OTHER -> [panic |-> FALSE, token |-> TokenCharacter(c), lexer |-> rest]

\* Lexer::scan: the next token and the lexer after it; panic when the
\* expect() on the character after a backslash finds the end of the source
scan(lexer) ==
    IF lexer = <<>>
    THEN [panic |-> FALSE, token |-> End, lexer |-> lexer]
    ELSE LET c == Head(lexer)
             rest == Tail(lexer)
         IN  CASE c = "\\" ->
                    IF rest = <<>>
                    THEN [panic |-> TRUE, token |-> End, lexer |-> rest]
                    ELSE [panic |-> FALSE, token |-> TokenCharacter(Head(rest)),
                          lexer |-> Tail(rest)]
               [] c = "|" -> [panic |-> FALSE, token |-> UnionOp, lexer |-> rest]
               [] c = "(" -> [panic |-> FALSE, token |-> LeftParen, lexer |-> rest]
               [] c = ")" -> [panic |-> FALSE, token |-> RightParen, lexer |-> rest]
               [] c = "*" -> [panic |-> FALSE, token |-> StarOp, lexer |-> rest]
               [] OTHER -> [panic |-> FALSE, token |-> TokenCharacter(c), lexer |-> rest]

(***************************************************************************)
(* parser.rs: the syntax tree and the parser                               *)
(***************************************************************************)
Character(c) == <<"Character", c>>
Empty == <<"Empty">>
Star(n) == <<"Star", n>>
Union(n1, n2) == <<"Union", n1, n2>>
Concat(n1, n2) == <<"Concat", n1, n2>>

NoNode == <<>>
NoError == <<>>

\* ParseError::new
ParseError(expected, actual) == [expected |-> expected, actual |-> actual]

\* A ParseResult together with the parser it leaves behind.  st is "Ok",
\* "Err" (a ParseError) or "Panic" (the lexer panicked during a scan).
Ok(n, p) == [st |-> "Ok", node |-> n, parser |-> p, err |-> NoError]
Err(e, p) == [st |-> "Err", node |-> NoNode, parser |-> p, err |-> e]
Panic(p) == [st |-> "Panic", node |-> NoNode, parser |-> p, err |-> NoError]

\* Parser::new: scans the first token
ParserNew(lexer) ==
    LET s == scan(lexer)
    IN  IF s.panic
        THEN Panic([lexer |-> s.lexer, look |-> End])
        ELSE Ok(NoNode, [lexer |-> s.lexer, look |-> s.token])

\* Parser::match_next
match_next(p, token) ==
    IF p.look = token
    THEN LET s == scan(p.lexer)
         IN  IF s.panic
             THEN Panic(p)
             ELSE Ok(NoNode, [lexer |-> s.lexer, look |-> s.token])
    ELSE Err(ParseError(<<token>>, p.look), p)

IsCharacterToken(token) == token[1] = "Character"

\* the ? operator: the continuation K runs on an Ok result, anything else is
\* returned as it is
Try(r, K(_)) == IF r.st = "Ok" THEN K(r) ELSE r

\* let: the value v bound in the body F
Let(v, F(_)) == F(v)

RECURSIVE sub_expression(_)

\* factor, after sub_expression returned result (kept without ?): the
\* match_next(RightParen)? comes first, then result is returned
factor_close(res) ==
    IF res.st = "Panic" THEN res
    ELSE Try(match_next(res.parser, RightParen),
             LAMBDA m2 : [res EXCEPT !.parser = m2.parser])

\* <factor> ::= '(' <sub_expression> ')' | Token::Character
factor(p) ==
    CASE p.look = LeftParen ->
            Try(match_next(p, LeftParen),
                LAMBDA m1 : factor_close(sub_expression(m1.parser)))
      [] IsCharacterToken(p.look) ->
            Try(match_next(p, p.look),
                LAMBDA m : Ok(Character(p.look[2]), m.parser))
      [] OTHER ->
            Err(ParseError(<<LeftParen, TokenCharacter("_")>>, p.look), p)

\* <star> ::= <factor> '*' | <factor>
star(p) ==
    Try(factor(p), LAMBDA f :
        IF f.parser.look = StarOp
        THEN Try(match_next(f.parser, StarOp),
                 LAMBDA m : Ok(Star(f.node), m.parser))
        ELSE f)

RECURSIVE sub_sequence(_)

\* <sub_sequence> ::= <star sub_sequence> | <star>
sub_sequence(p) ==
    Try(star(p), LAMBDA s :
        IF s.parser.look = LeftParen \/ IsCharacterToken(s.parser.look)
        THEN Try(sub_sequence(s.parser),
                 LAMBDA r : Ok(Concat(s.node, r.node), r.parser))
        ELSE s)

\* sequence without the empty alternative: a factor is always required
sequence_never_empty(p) == sub_sequence(p)

\* <sequence> ::= <sub_sequence> | ''
sequence(p) ==
    IF p.look = LeftParen \/ IsCharacterToken(p.look)
    THEN sub_sequence(p)
    ELSE Ok(Empty, p)

\* <sub_expression> ::= <sequence> '|' <sub_expression> | <sequence>
sub_expression(p) ==
    Try(sequence(p), LAMBDA s :
        IF s.parser.look = UnionOp
        THEN Try(match_next(s.parser, UnionOp), LAMBDA m :
                 Try(sub_expression(m.parser),
                     LAMBDA r : Ok(Union(s.node, r.node), r.parser)))
        ELSE s)

\* <expression> ::= <sub_expression> Token::End
expression(p) ==
    Try(sub_expression(p), LAMBDA e :
        Try(match_next(e.parser, End), LAMBDA m : Ok(e.node, m.parser)))

\* Parser::parse
parse(p) == expression(p)

(***************************************************************************)
(* automaton/nfa.rs                                                        *)
(***************************************************************************)
None == <<>>
Some(c) == <<c>>

\* nfa.rs Context::new
NfaContextNew == [states |-> 0]

\* new_state without "self.states += 1": the same id is issued again
new_state_reused(ctx) == [context |-> ctx, id |-> ctx.states]

\* nfa.rs Context::new_state
new_state(ctx) == [context |-> [states |-> ctx.states + 1], id |-> ctx.states]

\* NFA::new
NfaNew(s, acc) == [start |-> s, accepts |-> acc, transition |-> {}]

\* NFA::next_chars: the labels (None included) on the transitions leaving state
next_chars(a, state) == {t[2] : t \in {u \in a.transition : u[1] = state}}

\* NFA::next_states
next_states(a, state, chara) ==
    {t[3] : t \in {u \in a.transition : u[1] = state /\ u[2] = chara}}

\* NFA::_insert_transition
insert_transition(a, from, to, chara) ==
    [a EXCEPT !.transition = @ \cup {<<from, chara, to>>}]

\* add_transition dropping the character: the transition is stored under None
add_transition_unlabelled(a, from, chara, to) == insert_transition(a, from, to, None)

\* NFA::add_transition
add_transition(a, from, chara, to) == insert_transition(a, from, to, Some(chara))

\* NFA::add_empty_transition
add_empty_transition(a, from, to) == insert_transition(a, from, to, None)

\* NFA::merge_transition
merge_transition(a, other) ==
    [a EXCEPT !.transition = @ \cup other.transition]

RECURSIVE add_empty_transitions(_, _, _)
\* the loops "for accept in &frag.accepts { add_empty_transition(*accept, to) }"
\* of Node::assemble
add_empty_transitions(a, froms, to) ==
    IF froms = {} THEN a
    ELSE LET f == CHOOSE x \in froms : TRUE
         IN  add_empty_transitions(add_empty_transition(a, f, to), froms \ {f}, to)

\* assemble_star without the loop back from the accepting states of frag
assemble_star_no_loop(frag, s) ==
    [nfa |-> add_empty_transition(
                merge_transition(NfaNew(s.id, frag.nfa.accepts \cup {s.id}),
                                 frag.nfa),
                s.id, frag.nfa.start),
     context |-> s.context]

\* assemble_star without the new start state among the accepting states
assemble_star_start_rejecting(frag, s) ==
    [nfa |-> add_empty_transitions(
                add_empty_transition(
                    merge_transition(NfaNew(s.id, frag.nfa.accepts), frag.nfa),
                    s.id, frag.nfa.start),
                frag.nfa.accepts, frag.nfa.start),
     context |-> s.context]

\* the Star arm of Node::assemble, frag and the new start state s given
assemble_star(frag, s) ==
    [nfa |-> add_empty_transitions(
                add_empty_transition(
                    merge_transition(NfaNew(s.id, frag.nfa.accepts \cup {s.id}),
                                     frag.nfa),
                    s.id, frag.nfa.start),
                frag.nfa.accepts, frag.nfa.start),
     context |-> s.context]

\* assemble_union without the epsilon transition to the start of frag2
assemble_union_left_only(frag1, frag2, s) ==
    [nfa |-> add_empty_transition(
                merge_transition(
                    merge_transition(
                        NfaNew(s.id, frag1.nfa.accepts \cup frag2.nfa.accepts),
                        frag1.nfa),
                    frag2.nfa),
                s.id, frag1.nfa.start),
     context |-> s.context]

\* the Union arm of Node::assemble, frag1, frag2 and the new start state s given
assemble_union(frag1, frag2, s) ==
    [nfa |-> add_empty_transition(
                add_empty_transition(
                    merge_transition(
                        merge_transition(
                            NfaNew(s.id, frag1.nfa.accepts \cup frag2.nfa.accepts),
                            frag1.nfa),
                        frag2.nfa),
                    s.id, frag1.nfa.start),
                s.id, frag2.nfa.start),
     context |-> s.context]

\* assemble_concat leaving the accepting states of frag1 accepting
assemble_concat_keep_accepts(frag1, frag2) ==
    [nfa |-> add_empty_transitions(
                merge_transition(
                    merge_transition(
                        NfaNew(frag1.nfa.start,
                               frag1.nfa.accepts \cup frag2.nfa.accepts),
                        frag1.nfa),
                    frag2.nfa),
                frag1.nfa.accepts, frag2.nfa.start),
     context |-> frag2.context]

\* assemble_concat joining the start of frag1, not its accepting states, to
\* the start of frag2
assemble_concat_from_start(frag1, frag2) ==
    [nfa |-> add_empty_transition(
                merge_transition(
                    merge_transition(NfaNew(frag1.nfa.start, frag2.nfa.accepts),
                                     frag1.nfa),
                    frag2.nfa),
                frag1.nfa.start, frag2.nfa.start),
     context |-> frag2.context]

\* the Concat arm of Node::assemble, frag1 and frag2 given
assemble_concat(frag1, frag2) ==
    [nfa |-> add_empty_transitions(
                merge_transition(
                    merge_transition(NfaNew(frag1.nfa.start, frag2.nfa.accepts),
                                     frag1.nfa),
                    frag2.nfa),
                frag1.nfa.accepts, frag2.nfa.start),
     context |-> frag2.context]

RECURSIVE assemble(_, _)
\* Node::assemble: the fragment of node n and the context after it
assemble(n, ctx) ==
    CASE n[1] = "Character" ->
            Let(new_state(ctx), LAMBDA s :
            Let(new_state(s.context), LAMBDA a :
                [nfa |-> add_transition(NfaNew(s.id, {a.id}), s.id, n[2], a.id),
                 context |-> a.context]))
      [] n[1] = "Empty" ->
            Let(new_state(ctx), LAMBDA s :
            Let(new_state(s.context), LAMBDA a :
                [nfa |-> add_empty_transition(NfaNew(s.id, {a.id}), s.id, a.id),
                 context |-> a.context]))
      [] n[1] = "Star" ->
            Let(assemble(n[2], ctx), LAMBDA frag :
                assemble_star(frag, new_state(frag.context)))
      [] n[1] = "Union" ->
            Let(assemble(n[2], ctx), LAMBDA frag1 :
            Let(assemble(n[3], frag1.context), LAMBDA frag2 :
                assemble_union(frag1, frag2, new_state(frag2.context))))
      [] n[1] = "Concat" ->
            Let(assemble(n[2], ctx), LAMBDA frag1 :
            Let(assemble(n[3], frag1.context), LAMBDA frag2 :
                assemble_concat(frag1, frag2)))

\* the states an NFA mentions
States(a) ==
    {a.start} \cup a.accepts \cup {t[1] : t \in a.transition}
        \cup {t[3] : t \in a.transition}

\* from_node drawing its ids from one counter shared by all runs: the ids go
\* on after those of the NFA built before
from_node_shared_counter(n) ==
    assemble(n, [states |-> IF nfa = NfaNew(0, {}) THEN 0
                            ELSE Cardinality(States(nfa))]).nfa

\* NFA::from_node
from_node(n) == assemble(n, NfaContextNew).nfa

(***************************************************************************)
(* automaton/dfa.rs                                                        *)
(***************************************************************************)
\* the orders in which the elements of a HashSet (the keys of a HashMap) can
\* be iterated
Orders(S) == {s \in [1..Cardinality(S) -> S] : Range(s) = S}

RECURSIVE SetToVec(_)
\* a HashSet collected into a Vec whose order is never observed (it is only
\* sorted, searched, or iterated into a set): ascending order stands for all
SetToVec(S) ==
    IF S = {} THEN <<>>
    ELSE LET m == CHOOSE x \in S : \A y \in S : x <= y
         IN  <<m>> \o SetToVec(S \ {m})

RECURSIVE insert_sorted(_, _)
insert_sorted(s, x) ==
    IF s = <<>> THEN <<x>>
    ELSE IF x <= Head(s) THEN <<x>> \o s
         ELSE <<Head(s)>> \o insert_sorted(Tail(s), x)

RECURSIVE sort(_)
\* Vec::sort: ascending, duplicates kept
sort(s) == IF s = <<>> THEN <<>> ELSE insert_sorted(sort(Tail(s)), Head(s))

\* dfa.rs Context::new
DfaContextNew == [states |-> 0, statemap |-> <<>>]

\* dfa.rs Context::get_state: the context after the call and the id returned
get_state(ctx, states) ==
    LET sorted_states == sort(states)
    IN  IF sorted_states \in DOMAIN ctx.statemap
        THEN [context |-> ctx, id |-> ctx.statemap[sorted_states]]
        ELSE [context |-> [states |-> ctx.states + 1,
                           statemap |-> (sorted_states :> ctx.states) @@ ctx.statemap],
              id |-> ctx.states]

\* next_state looking the state up and ignoring the character
next_state_any(d, state, chara) ==
    LET hits == {t \in d.transition : t[1] = state}
    IN  IF hits = {} THEN None ELSE Some((CHOOSE t \in hits : TRUE)[3])

\* DFA::next_state: Some(state) or None
next_state(d, state, chara) ==
    LET hits == {t \in d.transition : t[1] = state /\ t[2] = chara}
    IN  IF hits = {} THEN None ELSE Some((CHOOSE t \in hits : TRUE)[3])

\* transition_insert on a table keyed by the character alone: the entry of
\* another state for the same character is replaced
transition_insert_by_chara(ret, from, chara, to) ==
    {t \in ret : t[2] # chara} \cup {<<from, chara, to>>}

\* HashMap::insert on the transition table of the DFA: one entry per key
transition_insert(ret, from, chara, to) ==
    {t \in ret : ~(t[1] = from /\ t[2] = chara)} \cup {<<from, chara, to>>}

RECURSIVE closure_loop(_, _, _)
\* from_nfa lines 91-95: "while let Some(state) = stack.pop()" of the
\* per-symbol closure; next_states is kept as the set of its entries
closure_loop(a, reached, stk) ==
    IF stk = <<>> THEN reached
    ELSE LET state == stk[Len(stk)]
             next == next_states(a, state, None)
             fresh == {s \in next : s \notin reached}
         IN  closure_loop(a, reached \cup next,
                          SubSeq(stk, 1, Len(stk) - 1) \o SetToVec(fresh))

\* from_nfa lines 81-95: the states collected for one look_state and chara
char_targets(a, look_state, chara) ==
    LET first == next_states(a, look_state, Some(chara))
                    \cup next_states(a, look_state, None)
        stk == SetToVec({s \in first : next_states(a, s, None) # {}})
    IN  closure_loop(a, first, stk)

\* transition_map with an entry for every symbol, empty where no look_state
\* has a transition on it
transition_map_total(a, look_states) ==
    [chara \in NfaChars |->
        UNION {char_targets(a, ls, chara) :
                 ls \in {x \in Range(look_states) : Some(chara) \in next_chars(a, x)}}]

\* from_nfa lines 78-98: transition_map for the popped look_states
transition_map(a, look_states) ==
    LET charas == {l[1] : l \in {k \in UNION {next_chars(a, ls) : ls \in Range(look_states)}
                                    : k # None}}
    IN  [chara \in charas |->
            UNION {char_targets(a, ls, chara) :
                     ls \in {x \in Range(look_states) : Some(chara) \in next_chars(a, x)}}]

RECURSIVE record_transitions(_, _, _, _, _)
\* from_nfa lines 100-107: the loop over transition_map, in the order "order";
\* acc holds context, waiting and the transition table built so far
record_transitions(order, tmap, from, seen, acc) ==
    IF order = <<>> THEN acc
    ELSE LET chara == Head(order)
             next_states_vec == SetToVec(tmap[chara])
             g == get_state(acc.context, next_states_vec)
         IN  record_transitions(Tail(order), tmap, from, seen,
                [context |-> g.context,
                 waiting |-> IF g.id \notin seen
                             THEN Append(acc.waiting, SetToVec(tmap[chara]))
                             ELSE acc.waiting,
                 transition |-> transition_insert(acc.transition, from, chara, g.id)])

\* dfa_accepts asking for every NFA state of the set to be accepting
dfa_accepts_all(a, ctx) ==
    {ctx.statemap[k] : k \in {x \in DOMAIN ctx.statemap :
                                \A i \in 1..Len(x) : x[i] \in a.accepts}}

\* from_nfa lines 113-121: the accepting DFA states
dfa_accepts(a, ctx) ==
    {ctx.statemap[k] : k \in {x \in DOMAIN ctx.statemap :
                                \E i \in 1..Len(x) : x[i] \in a.accepts}}

NoNfa == NfaNew(0, {})
NoDfa == [start |-> 0, accepts |-> {}, transition |-> {}]

parseVars == <<pattern, node, error, lex, tokens>>
nfaVars == <<nfa, nfa2>>
buildVars == <<context, start_states, stack, start, waiting, visited, expanded,
               transition, symbol, dfa>>

\* no per-symbol closure is under way
NoSymbol == [look_state |-> 0, chara |-> "", next_states |-> <<>>, stack |-> <<>>,
             turns |-> 0]
matchVars == <<text, current_state, pos, result, second>>

\* a matches call that has not begun: no locals yet
NoCall == [pc |-> "idle", text |-> <<>>, current_state |-> 0, pos |-> 0,
           result |-> FALSE]

Idle ==
    /\ node = NoNode /\ error = NoError
    /\ lex = <<>> /\ tokens = <<>>
    /\ nfa = NoNfa /\ nfa2 = NoNfa
    /\ context = DfaContextNew /\ start_states = <<>> /\ stack = <<>> /\ start = 0
    /\ waiting = <<>> /\ visited = {} /\ expanded = <<>>
    /\ transition = {} /\ symbol = NoSymbol /\ dfa = NoDfa
    /\ text = <<>> /\ current_state = 0 /\ pos = 0 /\ result = FALSE
    /\ second = NoCall
    /\ calls = {}
    /\ earlier = <<>>

(***************************************************************************)
(* A Lexer scanned on its own                                              *)
(***************************************************************************)
\* the End tokens at the end of toks
RECURSIVE EndsAtEnd(_)
EndsAtEnd(toks) ==
    IF toks = <<>> \/ toks[Len(toks)] # End THEN 0
    ELSE 1 + EndsAtEnd(SubSeq(toks, 1, Len(toks) - 1))

\* Lexer::new(pattern)
LexerBegin ==
    /\ pc = "lexer"
    /\ lex' = LexerNew(pattern)
    /\ tokens' = <<>>
    /\ pc' = "scanning"
    /\ UNCHANGED <<pattern, node, error, nfaVars, buildVars, matchVars, calls, earlier>>

\* one lexer.scan(); scanning goes on after the first End
LexerScan ==
    /\ pc = "scanning"
    /\ EndsAtEnd(tokens) < MaxEndScans
    /\ LET s == scan(lex)
       IN  IF s.panic
           THEN pc' = "panicked" /\ UNCHANGED <<lex, tokens>>
           ELSE pc' = pc /\ lex' = s.lexer /\ tokens' = Append(tokens, s.token)
    /\ UNCHANGED <<pattern, node, error, nfaVars, buildVars, matchVars, calls, earlier>>

(***************************************************************************)
(* Regex::new                                                              *)
(***************************************************************************)
\* lib.rs 17-18: Parser::new(Lexer::new(pattern)) and parser.parse()?
RegexNewParse ==
    /\ pc = "new"
    /\ LET p0 == ParserNew(LexerNew(pattern))
           r == IF p0.st = "Panic" THEN p0 ELSE parse(p0.parser)
       IN  /\ pc' = CASE r.st = "Ok" -> "parsed"
                      [] r.st = "Err" -> "err"
                      [] OTHER -> "panicked"
           /\ node' = r.node
           /\ error' = r.err
    /\ UNCHANGED <<pattern, lex, tokens, nfaVars, buildVars, matchVars, calls, earlier>>

\* lib.rs 19: NFA::from_node(node)
RegexNewFromNode ==
    /\ pc = "parsed"
    /\ nfa' = from_node(node)
    /\ pc' = "nfa"
    /\ UNCHANGED <<parseVars, nfa2, buildVars, matchVars, calls, earlier>>

\* a second NFA::from_node on the same tree
FromNodeAgain ==
    /\ pc = "nfa"
    /\ nfa2' = from_node(node)
    /\ pc' = "nfa_twice"
    /\ UNCHANGED <<parseVars, nfa, buildVars, matchVars, calls, earlier>>

(***************************************************************************)
(* NFA::new, add_transition, add_empty_transition: an NFA built by hand    *)
(***************************************************************************)
NfaStates == 0..(MaxNfaStates - 1)

NfaAddTransition ==
    /\ pc = "building"
    /\ Cardinality(nfa.transition) < MaxNfaTransitions
    /\ \E from \in NfaStates, chara \in NfaChars, to \in NfaStates :
          nfa' = add_transition(nfa, from, chara, to)
    /\ nfa' # nfa
    /\ UNCHANGED <<pc, parseVars, nfa2, buildVars, matchVars, calls, earlier>>

NfaAddEmptyTransition ==
    /\ pc = "building"
    /\ Cardinality(nfa.transition) < MaxNfaTransitions
    /\ \E from \in NfaStates, to \in NfaStates :
          nfa' = add_empty_transition(nfa, from, to)
    /\ nfa' # nfa
    /\ UNCHANGED <<pc, parseVars, nfa2, buildVars, matchVars, calls, earlier>>

(***************************************************************************)
(* DFA::from_nfa                                                           *)
(***************************************************************************)
\* FromNfaBegin with an empty first stack: the start set is nfa.start alone
FromNfaBeginStartAlone ==
    /\ pc \in {"nfa", "building"}
    /\ context' = DfaContextNew
    /\ start_states' = <<nfa.start>>
    /\ stack' = <<>>
    /\ pc' = "closure"
    /\ UNCHANGED <<parseVars, nfaVars, start, waiting, visited, expanded,
                   transition, symbol, dfa, matchVars, calls, earlier>>

\* dfa.rs 49, 54-59: the context, ret = vec![nfa.start] and the first stack
FromNfaBegin ==
    /\ pc \in {"nfa", "building"}
    /\ context' = DfaContextNew
    /\ start_states' = <<nfa.start>>
    /\ stack' \in Orders(next_states(nfa, nfa.start, None))
    /\ pc' = "closure"
    /\ UNCHANGED <<parseVars, nfaVars, start, waiting, visited, expanded,
                   transition, symbol, dfa, matchVars, calls, earlier>>

\* a turn of the start-closure loop that pushes every epsilon successor, those
\* already in ret too
StartClosureStepUnfiltered ==
    /\ pc = "closure"
    /\ stack # <<>>
    /\ LET state == stack[Len(stack)]
           ret == Append(start_states, state)
           next == next_states(nfa, state, None)
       IN  /\ start_states' = ret
           /\ \E pushed \in Orders(next) :
                 stack' = SubSeq(stack, 1, Len(stack) - 1) \o pushed
    /\ UNCHANGED <<pc, parseVars, nfaVars, context, start, waiting, visited,
                   expanded, transition, symbol, dfa, matchVars, calls, earlier>>

\* dfa.rs 60-64: one turn of the start-closure loop
StartClosureStep ==
    /\ pc = "closure"
    /\ stack # <<>>
    /\ LET state == stack[Len(stack)]
           ret == Append(start_states, state)
           next == next_states(nfa, state, None)
       IN  /\ start_states' = ret
           /\ \E pushed \in Orders({s \in next : s \notin Range(ret)}) :
                 stack' = SubSeq(stack, 1, Len(stack) - 1) \o pushed
    /\ UNCHANGED <<pc, parseVars, nfaVars, context, start, waiting, visited,
                   expanded, transition, symbol, dfa, matchVars, calls, earlier>>

\* dfa.rs 65, 70-72: the start state and the first worklist
StartClosureEnd ==
    /\ pc = "closure"
    /\ stack = <<>>
    /\ LET g == get_state(context, start_states)
       IN  /\ context' = g.context
           /\ start' = g.id
    /\ waiting' = <<start_states>>
    /\ visited' = {}
    /\ expanded' = <<>>
    /\ transition' = {}
    /\ pc' = "worklist"
    /\ UNCHANGED <<parseVars, nfaVars, start_states, stack, symbol, dfa, matchVars,
                   calls, earlier>>

\* dfa.rs 73-108: one turn of the worklist loop
Expand ==
    /\ pc = "worklist"
    /\ waiting # <<>>
    /\ LET look_states == waiting[Len(waiting)]
           g0 == get_state(context, look_states)
           seen == visited \cup {g0.id}
           tmap == transition_map(nfa, look_states)
           g1 == get_state(g0.context, look_states)
       IN  /\ visited' = seen
           /\ expanded' = Append(expanded, g0.id)
           /\ \E order \in Orders(DOMAIN tmap) :
                 LET r == record_transitions(order, tmap, g1.id, seen,
                             [context |-> g1.context,
                              waiting |-> SubSeq(waiting, 1, Len(waiting) - 1),
                              transition |-> transition])
                 IN  /\ context' = r.context
                     /\ waiting' = r.waiting
                     /\ transition' = r.transition
    /\ UNCHANGED <<pc, parseVars, nfaVars, start_states, stack, start, symbol, dfa,
                   matchVars, calls, earlier>>

\* dfa.rs 113-127: the accepting states and the DFA returned
FromNfaEnd ==
    /\ pc = "worklist"
    /\ waiting = <<>>
    /\ dfa' = [start |-> start, accepts |-> dfa_accepts(nfa, context),
               transition |-> transition]
    /\ pc' = "compiled"
    /\ UNCHANGED <<parseVars, nfaVars, context, start_states, stack, start, waiting,
                   visited, expanded, transition, symbol, matchVars, calls, earlier>>

\* DFA::from_nfa called once more on the same NFA: the DFA of the first run
\* is kept, and the second run begins as the first did (dfa.rs 49, 54-59)
FromNfaAgain ==
    /\ pc = "compiled"
    /\ earlier = <<>>
    /\ earlier' = <<dfa>>
    /\ context' = DfaContextNew
    /\ start_states' = <<nfa.start>>
    /\ stack' \in Orders(next_states(nfa, nfa.start, None))
    /\ pc' = "closure"
    /\ UNCHANGED <<parseVars, nfaVars, start, waiting, visited, expanded,
                   transition, symbol, dfa, matchVars, calls>>

(***************************************************************************)
(* DFA::from_nfa: the closure loop of one look_state and chara, turn by    *)
(* turn                                                                    *)
(***************************************************************************)
\* the elements of the sequence s that satisfy Keep, in their order
Filter(s, Keep(_)) == SelectSeq(s, Keep)

\* dfa.rs 80-90: next_states and the first stack for look_state and chara
SymbolClosureBegin ==
    /\ pc = "building"
    /\ \E look_state \in NfaStates, chara \in NfaChars :
          /\ Some(chara) \in next_chars(nfa, look_state)
          /\ \E by_chara \in Orders(next_states(nfa, look_state, Some(chara))),
                by_none \in Orders(next_states(nfa, look_state, None)) :
                symbol' = [look_state |-> look_state, chara |-> chara,
                           next_states |-> by_chara \o by_none,
                           stack |-> Filter(by_chara \o by_none,
                                       LAMBDA q : next_states(nfa, q, None) # {}),
                           turns |-> 0]
    /\ pc' = "symbol_closure"
    /\ UNCHANGED <<parseVars, nfaVars, context, start_states, stack, start, waiting,
                   visited, expanded, transition, dfa, matchVars, calls, earlier>>

\* dfa.rs 91-95: one turn of the closure loop
SymbolClosureStep ==
    /\ pc = "symbol_closure"
    /\ symbol.stack # <<>>
    /\ LET state == symbol.stack[Len(symbol.stack)]
           next == next_states(nfa, state, None)
       IN  \E order \in Orders(next) :
              symbol' = [symbol EXCEPT
                 !.stack = SubSeq(@, 1, Len(@) - 1)
                             \o Filter(order, LAMBDA q : q \notin Range(symbol.next_states)),
                 !.next_states = @ \o order,
                 !.turns = @ + 1]
    /\ UNCHANGED <<pc, parseVars, nfaVars, context, start_states, stack, start, waiting,
                   visited, expanded, transition, dfa, matchVars, calls, earlier>>

\* dfa.rs 91, 96: the stack is empty, next_states goes into transition_map
SymbolClosureEnd ==
    /\ pc = "symbol_closure"
    /\ symbol.stack = <<>>
    /\ pc' = "symbol_closed"
    /\ UNCHANGED <<parseVars, nfaVars, buildVars, matchVars, calls, earlier>>

(***************************************************************************)
(* Regex::matches                                                          *)
(***************************************************************************)
Texts == SeqsUpTo(TextChars, MaxTextLen)

\* lib.rs 25: current_state = self.dfa.start
MatchesBegin ==
    /\ pc = "compiled"
    /\ text' \in Texts
    /\ current_state' = dfa.start
    /\ pos' = 0
    /\ pc' = "matching"
    /\ UNCHANGED <<parseVars, nfaVars, buildVars, result, second, calls, earlier>>

\* lib.rs 25, for a text that may hold any character a pattern is written with
MatchesBeginAnyText ==
    /\ pc = "compiled"
    /\ text' \in SeqsUpTo(PatternChars, MaxAnyTextLen)
    /\ current_state' = dfa.start
    /\ pos' = 0
    /\ pc' = "matching"
    /\ UNCHANGED <<parseVars, nfaVars, buildVars, result, second, calls, earlier>>

\* lib.rs 26-28: the next character has a transition
MatchesStep ==
    /\ pc = "matching"
    /\ pos < Len(text)
    /\ LET next == next_state(dfa, current_state, text[pos + 1])
       IN  /\ next # None
           /\ current_state' = next[1]
    /\ pos' = pos + 1
    /\ UNCHANGED <<pc, parseVars, nfaVars, buildVars, text, result, second, calls, earlier>>

\* MatchesReturnFalse skipping the character instead of returning
MatchesSkipCharacter ==
    /\ pc = "matching"
    /\ pos < Len(text)
    /\ next_state(dfa, current_state, text[pos + 1]) = None
    /\ pos' = pos + 1
    /\ UNCHANGED <<pc, parseVars, nfaVars, buildVars, text, current_state, result,
                   second, calls, earlier>>

\* lib.rs 29-31: the next character has no transition: return false
MatchesReturnFalse ==
    /\ pc = "matching"
    /\ pos < Len(text)
    /\ next_state(dfa, current_state, text[pos + 1]) = None
    /\ result' = FALSE
    /\ pc' = "matched"
    /\ UNCHANGED <<parseVars, nfaVars, buildVars, text, current_state, pos, second, calls, earlier>>

\* lib.rs 33: the text is exhausted
MatchesEnd ==
    /\ pc = "matching"
    /\ pos = Len(text)
    /\ result' = (current_state \in dfa.accepts)
    /\ pc' = "matched"
    /\ UNCHANGED <<parseVars, nfaVars, buildVars, text, current_state, pos, second, calls, earlier>>

\* the call has returned to its caller: the locals are gone and the Regex can
\* be asked again
MatchesReturn ==
    /\ pc = "matched"
    /\ pc' = "compiled"
    /\ text' = <<>>
    /\ current_state' = 0
    /\ pos' = 0
    /\ result' = FALSE
    /\ UNCHANGED <<parseVars, nfaVars, buildVars, second, calls, earlier>>

(***************************************************************************)
(* Regex::matches called a second time on the same Regex (&self) while the *)
(* first call may be running                                               *)
(***************************************************************************)
\* the Regex has been returned by Regex::new
Compiled == pc \in {"compiled", "matching", "matched"}

SecondTexts == SeqsUpTo(TextChars, MaxSecondTextLen)

\* lib.rs 25: current_state = self.dfa.start
SecondBegin ==
    /\ Compiled
    /\ second.pc = "idle"
    /\ \E t \in SecondTexts :
          second' = [pc |-> "matching", text |-> t, current_state |-> dfa.start,
                    pos |-> 0, result |-> FALSE]
    /\ UNCHANGED <<pc, parseVars, nfaVars, buildVars, text, current_state, pos,
                   result, calls, earlier>>

\* SecondStep taking the state to step from out of the first call: the
\* position in the DFA kept in one place for all calls
SecondStepShared ==
    /\ Compiled
    /\ second.pc = "matching"
    /\ second.pos < Len(second.text)
    /\ LET next == next_state(dfa, current_state, second.text[second.pos + 1])
       IN  /\ next # None
           /\ second' = [second EXCEPT !.current_state = next[1], !.pos = @ + 1]
    /\ UNCHANGED <<pc, parseVars, nfaVars, buildVars, text, current_state, pos,
                   result, calls, earlier>>

\* lib.rs 26-28: the next character has a transition
SecondStep ==
    /\ Compiled
    /\ second.pc = "matching"
    /\ second.pos < Len(second.text)
    /\ LET next == next_state(dfa, second.current_state, second.text[second.pos + 1])
       IN  /\ next # None
           /\ second' = [second EXCEPT !.current_state = next[1], !.pos = @ + 1]
    /\ UNCHANGED <<pc, parseVars, nfaVars, buildVars, text, current_state, pos,
                   result, calls, earlier>>

\* lib.rs 29-31: the next character has no transition: return false
SecondReturnFalse ==
    /\ Compiled
    /\ second.pc = "matching"
    /\ second.pos < Len(second.text)
    /\ next_state(dfa, second.current_state, second.text[second.pos + 1]) = None
    /\ second' = [second EXCEPT !.pc = "matched", !.result = FALSE]
    /\ UNCHANGED <<pc, parseVars, nfaVars, buildVars, text, current_state, pos,
                   result, calls, earlier>>

\* lib.rs 33: the text is exhausted
SecondEnd ==
    /\ Compiled
    /\ second.pc = "matching"
    /\ second.pos = Len(second.text)
    /\ second' = [second EXCEPT !.pc = "matched",
                              !.result = (second.current_state \in dfa.accepts)]
    /\ UNCHANGED <<pc, parseVars, nfaVars, buildVars, text, current_state, pos,
                   result, calls, earlier>>

\* the second call has returned to its caller
SecondReturn ==
    /\ second.pc = "matched"
    /\ second' = NoCall
    /\ UNCHANGED <<pc, parseVars, nfaVars, buildVars, text, current_state, pos,
                   result, calls, earlier>>

(***************************************************************************)
(* dfa.rs Context::get_state on its own                                    *)
(***************************************************************************)
SliceStates == 0..(MaxSliceStates - 1)

ContextGetState ==
    /\ pc = "context"
    /\ \E states \in SeqsUpTo(SliceStates, MaxSliceLen) :
          LET g == get_state(context, states)
          IN  /\ context' = g.context
              /\ calls' = calls \cup {<<states, g.id>>}
    /\ UNCHANGED <<pc, parseVars, nfaVars, start_states, stack, start, waiting,
                   visited, expanded, transition, symbol, dfa, matchVars, earlier>>

(***************************************************************************)
(* Specifications                                                          *)
(***************************************************************************)
\* Regex::new on a pattern text, then Regex::matches on a text
Init ==
    /\ pc = "new"
    /\ pattern \in SeqsUpTo(PatternChars, MaxPatternLen)
    /\ Idle

Next ==
    \/ RegexNewParse
    \/ RegexNewFromNode
    \/ FromNodeAgain
    \/ FromNfaBegin
    \/ StartClosureStep
    \/ StartClosureEnd
    \/ Expand
    \/ FromNfaEnd
    \/ MatchesBegin
    \/ MatchesStep
    \/ MatchesReturnFalse
    \/ MatchesEnd

Spec == Init /\ [][Next]_vars

\* DFA::from_nfa on an NFA built with NFA::new, add_transition and
\* add_empty_transition
InitNFA ==
    /\ pc = "building"
    /\ pattern = <<>>
    /\ node = NoNode /\ error = NoError
    /\ lex = <<>> /\ tokens = <<>>
    /\ nfa \in {NfaNew(s, acc) : s \in NfaStates, acc \in SUBSET NfaStates}
    /\ nfa2 = NoNfa
    /\ context = DfaContextNew /\ start_states = <<>> /\ stack = <<>> /\ start = 0
    /\ waiting = <<>> /\ visited = {} /\ expanded = <<>>
    /\ transition = {} /\ symbol = NoSymbol /\ dfa = NoDfa
    /\ text = <<>> /\ current_state = 0 /\ pos = 0 /\ result = FALSE
    /\ second = NoCall
    /\ calls = {}
    /\ earlier = <<>>

NextNFA ==
    \/ NfaAddTransition
    \/ NfaAddEmptyTransition
    \/ FromNfaBegin
    \/ StartClosureStep
    \/ StartClosureEnd
    \/ Expand
    \/ FromNfaEnd

SpecNFA == InitNFA /\ [][NextNFA]_vars

\* the hand-built NFAs of the loops of from_nfa: no accepting state, since the
\* accepting states are read only after the last loop (dfa.rs 113-121)
InitLoops ==
    /\ pc = "building"
    /\ pattern = <<>>
    /\ node = NoNode /\ error = NoError
    /\ lex = <<>> /\ tokens = <<>>
    /\ nfa \in {NfaNew(s, {}) : s \in NfaStates}
    /\ nfa2 = NoNfa
    /\ context = DfaContextNew /\ start_states = <<>> /\ stack = <<>> /\ start = 0
    /\ waiting = <<>> /\ visited = {} /\ expanded = <<>>
    /\ transition = {} /\ symbol = NoSymbol /\ dfa = NoDfa
    /\ text = <<>> /\ current_state = 0 /\ pos = 0 /\ result = FALSE
    /\ second = NoCall
    /\ calls = {}
    /\ earlier = <<>>

\* from_nfa, or one of its per-symbol closures, on a hand-built NFA
NextLoops ==
    \/ NextNFA
    \/ SymbolClosureBegin
    \/ SymbolClosureStep
    \/ SymbolClosureEnd

\* the turns of the start-closure loop and of a per-symbol closure loop, and
\* the code after a loop: straight-line code, which goes on whenever it can
FromNfaRuns ==
    \/ StartClosureStep
    \/ StartClosureEnd
    \/ FromNfaEnd
    \/ SymbolClosureStep
    \/ SymbolClosureEnd

\* dfa.rs 69-70: a turn of the worklist loop, as far as the sets popped go:
\* the pop of Expand and its record in expanded
ExpandTurn ==
    /\ pc = "worklist"
    /\ waiting # <<>>
    /\ expanded' = Append(expanded, get_state(context, waiting[Len(waiting)]).id)

\* from_nfa runs to its end: no loop of it stops at a turn it can take
SpecLoops ==
    /\ InitLoops
    /\ [][NextLoops]_vars
    /\ WF_vars(FromNfaRuns)
    /\ WF_expanded(ExpandTurn)

\* the characters labelling the transitions of the NFAs run twice
RunChars == {"a"}

RunStates == 0..(MaxRunStates - 1)

RECURSIVE SetsUpTo(_, _)
\* the subsets of S of at most n elements
SetsUpTo(S, n) ==
    IF n = 0 THEN {{}}
    ELSE LET smaller == SetsUpTo(S, n - 1)
         IN  smaller \cup {p \cup {x} : p \in smaller, x \in S}

\* the transitions add_transition and add_empty_transition can add
RunTransitions ==
    {<<from, label, to>> : from \in RunStates,
                           label \in {None} \cup {Some(c) : c \in RunChars},
                           to \in RunStates}

\* DFA::from_nfa called twice on one NFA built with NFA::new, add_transition
\* and add_empty_transition
InitRuns ==
    /\ pc = "building"
    /\ pattern = <<>>
    /\ node = NoNode /\ error = NoError
    /\ lex = <<>> /\ tokens = <<>>
    /\ nfa \in {[NfaNew(0, acc) EXCEPT !.transition = tr] :
                  acc \in SUBSET RunStates,
                  tr \in SetsUpTo(RunTransitions, MaxRunTransitions)}
    /\ nfa2 = NoNfa
    /\ context = DfaContextNew /\ start_states = <<>> /\ stack = <<>> /\ start = 0
    /\ waiting = <<>> /\ visited = {} /\ expanded = <<>>
    /\ transition = {} /\ symbol = NoSymbol /\ dfa = NoDfa
    /\ text = <<>> /\ current_state = 0 /\ pos = 0 /\ result = FALSE
    /\ second = NoCall
    /\ calls = {}
    /\ earlier = <<>>

NextRuns ==
    \/ FromNfaBegin
    \/ StartClosureStep
    \/ StartClosureEnd
    \/ Expand
    \/ FromNfaEnd
    \/ FromNfaAgain

SpecRuns == InitRuns /\ [][NextRuns]_vars

\* any sequence of get_state calls on one Context
InitContext ==
    /\ pc = "context"
    /\ pattern = <<>>
    /\ Idle

NextContext == ContextGetState

SpecContext == InitContext /\ [][NextContext]_vars

\* Regex::new on a pattern text, then any number of matches calls on the
\* Regex, one after the other and a second one at the same time
InitShared ==
    /\ pc = "new"
    /\ pattern \in SeqsUpTo(PatternChars, MaxSharedPatternLen)
    /\ Idle

NextShared ==
    \/ RegexNewParse
    \/ RegexNewFromNode
    \/ FromNfaBegin
    \/ StartClosureStep
    \/ StartClosureEnd
    \/ Expand
    \/ FromNfaEnd
    \/ MatchesBegin
    \/ MatchesStep
    \/ MatchesReturnFalse
    \/ MatchesEnd
    \/ MatchesReturn
    \/ SecondBegin
    \/ SecondStep
    \/ SecondReturnFalse
    \/ SecondEnd
    \/ SecondReturn

SpecShared == InitShared /\ [][NextShared]_vars

\* a Lexer scanned to its end and beyond, or Regex::new on the pattern text
\* and then matches on a text of any characters
InitEscape ==
    /\ pc \in {"lexer", "new"}
    /\ pattern \in SeqsUpTo(PatternChars, MaxEscapePatternLen)
    /\ Idle

NextEscape ==
    \/ LexerBegin
    \/ LexerScan
    \/ RegexNewParse
    \/ RegexNewFromNode
    \/ FromNfaBegin
    \/ StartClosureStep
    \/ StartClosureEnd
    \/ Expand
    \/ FromNfaEnd
    \/ MatchesBeginAnyText
    \/ MatchesStep
    \/ MatchesReturnFalse
    \/ MatchesEnd

SpecEscape == InitEscape /\ [][NextEscape]_vars

(***************************************************************************)
(* The claims                                                              *)
(***************************************************************************)
Prefix(s, k) == SubSeq(s, 1, k)
Suffix(s, k) == SubSeq(s, k + 1, Len(s))

RECURSIVE InLanguage(_, _)
\* s belongs to the regular language denoted by the tree n
InLanguage(n, s) ==
    CASE n[1] = "Character" -> s = <<n[2]>>
      [] n[1] = "Empty" -> s = <<>>
      [] n[1] = "Union" -> InLanguage(n[2], s) \/ InLanguage(n[3], s)
      [] n[1] = "Concat" ->
            \E k \in 0..Len(s) :
                InLanguage(n[2], Prefix(s, k)) /\ InLanguage(n[3], Suffix(s, k))
      [] n[1] = "Star" ->
            \/ s = <<>>
            \/ \E k \in 1..Len(s) :
                  InLanguage(n[2], Prefix(s, k)) /\ InLanguage(n, Suffix(s, k))

RECURSIVE Literals(_)
\* the characters that occur as literals in the tree n
Literals(n) ==
    CASE n[1] = "Character" -> {n[2]}
      [] n[1] = "Empty" -> {}
      [] n[1] = "Star" -> Literals(n[2])
      [] OTHER -> Literals(n[2]) \cup Literals(n[3])

RECURSIVE HasKind(_, _)
\* the tree n holds a node of the kind k
HasKind(n, k) ==
    \/ n[1] = k
    \/ n[1] = "Star" /\ HasKind(n[2], k)
    \/ n[1] \in {"Union", "Concat"} /\ (HasKind(n[2], k) \/ HasKind(n[3], k))

\* C1: for a tree reached through Regex::new and any text, matches returns
\* true exactly when the whole text belongs to the language of the tree.
C1_MatchesIffInLanguage ==
    pc = "matched" => (result <=> InLanguage(node, text))

\* C1 witness: a match of a text of three characters against a pattern with
\* a Star and a Union
C1_Witness ==
    /\ pc = "matched"
    /\ result
    /\ Len(text) = 3
    /\ HasKind(node, "Star")
    /\ HasKind(node, "Union")

RECURSIVE Run(_, _, _)
\* the state reached from d.start over the first k characters of t, as Some,
\* or None when one of them has no transition
Run(d, t, k) ==
    IF k = 0 THEN Some(d.start)
    ELSE LET before == Run(d, t, k - 1)
         IN  IF before = None THEN None ELSE next_state(d, before[1], t[k])

\* the characters of t for which the run from d.start finds no transition
\* (the first one and, vacuously, all after it)
Missing(d, t) == {k \in 1..Len(t) : Run(d, t, k) = None}

Least(S) == CHOOSE k \in S : \A j \in S : k <= j

\* C6: matches starts at dfa.start and consumes the text left to right; at
\* the first character without a transition it returns false with the rest
\* of the text unread; otherwise it returns whether the state reached after
\* the last character is accepting.
C6_MatchesRun ==
    /\ pc \in {"matching", "matched"} => Run(dfa, text, pos) = Some(current_state)
    /\ pc = "matched" =>
          IF Missing(dfa, text) # {}
          THEN result = FALSE /\ pos = Least(Missing(dfa, text)) - 1
          ELSE pos = Len(text)
               /\ (result <=> Run(dfa, text, Len(text))[1] \in dfa.accepts)

\* C6 witness: matches returned false at the second of three characters
C6_Witness ==
    /\ pc = "matched"
    /\ Len(text) = 3
    /\ pos = 1
    /\ result = FALSE

\* C7: a text with a character that is no literal of the pattern is never
\* matched, and matches always returns: while it runs, one of its steps is
\* enabled.
C7_ForeignCharacterRejected ==
    /\ (pc = "matched" /\ \E i \in 1..Len(text) : text[i] \notin Literals(node))
          => result = FALSE
    /\ pc = "matching" => ENABLED (MatchesStep \/ MatchesReturnFalse \/ MatchesEnd)

\* C7 witness: a text rejected at a foreign character after a character of
\* the pattern was consumed
C7_Witness ==
    /\ pc = "matched"
    /\ pos >= 1
    /\ pos < Len(text)
    /\ text[pos + 1] \notin Literals(node)
    /\ result = FALSE

\* C8: Regex::new returns Ok or Err for every pattern text; it never ends in
\* another way.
C8_NewReturnsOkOrErr == pc # "panicked"

RECURSIVE EClosure(_, _)
\* the epsilon-closure of the set S of states of the NFA a
EClosure(a, S) ==
    LET T == S \cup UNION {next_states(a, q, None) : q \in S}
    IN  IF T = S THEN S ELSE EClosure(a, T)

RECURSIVE NfaAfter(_, _, _)
\* the states the NFA a can be in after the first k characters of s
NfaAfter(a, s, k) ==
    IF k = 0 THEN EClosure(a, {a.start})
    ELSE EClosure(a, UNION {next_states(a, q, Some(s[k])) : q \in NfaAfter(a, s, k - 1)})

NfaAccepts(a, s) == NfaAfter(a, s, Len(s)) \cap a.accepts # {}

DfaAccepts(d, s) ==
    LET r == Run(d, s, Len(s))
    IN  r # None /\ r[1] \in d.accepts

\* C2: for every NFA built with NFA::new, add_transition and
\* add_empty_transition and every string s, the NFA accepts s under
\* epsilon-closure simulation exactly when the DFA of from_nfa accepts s.
C2_NfaDfaEquivalent ==
    pc = "compiled" => \A s \in Texts : NfaAccepts(nfa, s) <=> DfaAccepts(dfa, s)

\* C3: get_state returns the same id for any two slices that denote the same
\* set, whatever the order and the repetitions, and a repeated request
\* allocates no id: as many ids are allocated as distinct sets were requested.
C3_SameSetSameId ==
    /\ \A c1, c2 \in calls : Range(c1[1]) = Range(c2[1]) => c1[2] = c2[2]
    /\ context.states = Cardinality({Range(c[1]) : c \in calls})

\* C4: during from_nfa two collections handed to the memo table have the same
\* DFAState exactly when they are equal as sets, so no two ids of the DFA
\* stand for the same set of NFA states.
C4_SameIdIffSameSet ==
    pc \in {"worklist", "compiled"} =>
        \A k1, k2 \in DOMAIN context.statemap :
            (Range(k1) = Range(k2)) <=> (context.statemap[k1] = context.statemap[k2])

\* the states of the DFA d: its start and the ends of its transitions
DfaStates(d) ==
    {d.start} \cup {t[1] : t \in d.transition} \cup {t[3] : t \in d.transition}

\* the set of NFA states the DFA state q stands for
NfaSetOf(ctx, q) == Range(CHOOSE k \in DOMAIN ctx.statemap : ctx.statemap[k] = q)

\* C5: in the DFA returned by from_nfa a state (the start state or the target
\* of a transition) is accepting exactly when the set of NFA states it stands
\* for holds an accepting NFA state.
C5_AcceptsIffContainsAccepting ==
    pc = "compiled" =>
        /\ dfa.accepts \subseteq DfaStates(dfa)
        /\ \A q \in DfaStates(dfa) :
              q \in dfa.accepts <=> NfaSetOf(context, q) \cap nfa.accepts # {}

\* C5 witness: a transition from a rejecting state into an accepting state
\* whose set holds an accepting and a non-accepting NFA state
C5_Witness ==
    /\ pc = "compiled"
    /\ \E t \in dfa.transition :
          /\ t[1] \notin dfa.accepts
          /\ t[3] \in dfa.accepts
          /\ NfaSetOf(context, t[3]) \cap nfa.accepts # {}
          /\ NfaSetOf(context, t[3]) \ nfa.accepts # {}

RECURSIVE Items(_)
\* the pattern text src item by item: "(", ")", "*", "|" where unescaped,
\* "c" for a literal character (plain or escaped)
Items(src) ==
    IF src = <<>> THEN <<>>
    ELSE IF Head(src) = "\\"
         THEN IF Len(src) = 1 THEN <<>> ELSE <<"c">> \o Items(Tail(Tail(src)))
         ELSE IF Head(src) \in {"(", ")", "*", "|"}
              THEN <<Head(src)>> \o Items(Tail(src))
              ELSE <<"c">> \o Items(Tail(src))

RECURSIVE UnmatchedParen(_, _)
\* items, read at the nesting depth d, hold a ")" without its "(" or leave a
\* "(" open
UnmatchedParen(items, d) ==
    IF items = <<>> THEN d > 0
    ELSE CASE Head(items) = "(" -> UnmatchedParen(Tail(items), d + 1)
           [] Head(items) = ")" -> d = 0 \/ UnmatchedParen(Tail(items), d - 1)
           [] OTHER -> UnmatchedParen(Tail(items), d)

\* a "*" that does not follow a literal character or a ")"
StrayStar(items) ==
    \E i \in 1..Len(items) :
        items[i] = "*" /\ (i = 1 \/ items[i - 1] \notin {"c", ")"})

Malformed(src) == UnmatchedParen(Items(src), 0) \/ StrayStar(Items(src))

\* C9: for a pattern text with an unmatched parenthesis or a stray "*"
\* Regex::new returns Err with a ParseError (expected tokens and the actual
\* lookahead) and builds no NFA and no DFA.
C9_MalformedIsErr ==
    (pc # "new" /\ Malformed(pattern)) =>
        /\ pc = "err"
        /\ error # NoError
        /\ Len(error.expected) >= 1
        /\ nfa = NoNfa
        /\ dfa = NoDfa

RECURSIVE PostOrder(_, _)
\* assembling n from the context ctx numbers the sub-fragments left to right
\* and the new start state of a Star or a Union after them
PostOrder(n, ctx) ==
    CASE n[1] \in {"Character", "Empty"} -> TRUE
      [] n[1] = "Star" ->
            /\ PostOrder(n[2], ctx)
            /\ \A q \in States(assemble(n[2], ctx).nfa) : q < assemble(n, ctx).nfa.start
      [] OTHER ->
            LET frag1 == assemble(n[2], ctx)
                frag2 == assemble(n[3], frag1.context)
            IN  /\ PostOrder(n[2], ctx)
                /\ PostOrder(n[3], frag1.context)
                /\ \A q1 \in States(frag1.nfa), q2 \in States(frag2.nfa) : q1 < q2
                /\ n[1] = "Union" =>
                      \A q \in States(frag1.nfa) \cup States(frag2.nfa) :
                          q < assemble(n, ctx).nfa.start

\* C10: a second from_node run on the same tree gives the same NFA (start,
\* accepts, transitions with the same ids), and the ids follow the
\* left-to-right post-order of the tree: the start of a Star or Union is
\* larger than every id of its sub-fragments.
C10_FromNodeDeterministic ==
    pc = "nfa_twice" =>
        /\ nfa2 = nfa
        /\ nfa = assemble(node, NfaContextNew).nfa
        /\ PostOrder(node, NfaContextNew)

\* C10 witness: two runs on a tree with a Star and a Union
C10_Witness ==
    /\ pc = "nfa_twice"
    /\ HasKind(node, "Star")
    /\ HasKind(node, "Union")
    /\ Cardinality(States(nfa2)) >= 5

RECURSIVE Fragments(_, _)
\* every sub-tree of n with the context its assemble call starts from, n
\* itself assembled from ctx
Fragments(n, ctx) ==
    {[node |-> n, ctx |-> ctx]} \cup
    CASE n[1] \in {"Character", "Empty"} -> {}
      [] n[1] = "Star" -> Fragments(n[2], ctx)
      [] OTHER -> Fragments(n[2], ctx)
                    \cup Fragments(n[3], assemble(n[2], ctx).context)

RECURSIVE NewStateCalls(_)
\* the number of new_state calls the assembly of n makes
NewStateCalls(n) ==
    CASE n[1] \in {"Character", "Empty"} -> 2
      [] n[1] = "Star" -> NewStateCalls(n[2]) + 1
      [] n[1] = "Union" -> NewStateCalls(n[2]) + NewStateCalls(n[3]) + 1
      [] OTHER -> NewStateCalls(n[2]) + NewStateCalls(n[3])

\* the transitions of a that leave the state q
Out(a, q) == {t \in a.transition : t[1] = q}

\* the fragment of the sub-tree f: the NFA from_node returned for the whole
\* tree, the result of its assemble call for a proper sub-tree
Built(f) ==
    IF f.node = node /\ f.ctx = NfaContextNew THEN nfa
    ELSE assemble(f.node, f.ctx).nfa

\* first and second operand of the two-operand sub-tree f, as fragments
Frag1(f) == assemble(f.node[2], f.ctx)
Frag2(f) == assemble(f.node[3], Frag1(f).context)

\* C11: one from_node run issues the ids 0, 1, 2, ... in increasing order and
\* none twice: every assemble call uses exactly the ids from its counter value
\* on, one per new_state call; the state sets of the two operands of a Union
\* or Concat are disjoint, and no id of the merged table carries transitions
\* of both operands.
C11_IdsFreshAndDisjoint ==
    pc = "nfa" =>
        /\ States(nfa) = 0..(NewStateCalls(node) - 1)
        /\ Cardinality(States(nfa)) = NewStateCalls(node)
        /\ \A f \in Fragments(node, NfaContextNew) :
              LET frag == assemble(f.node, f.ctx)
              IN  /\ frag.context.states = f.ctx.states + NewStateCalls(f.node)
                  /\ States(Built(f)) = f.ctx.states..(frag.context.states - 1)
                  /\ f.node[1] \in {"Union", "Concat"} =>
                        /\ States(Frag1(f).nfa) \cap States(Frag2(f).nfa) = {}
                        /\ \A q1 \in States(Frag1(f).nfa), q2 \in States(Frag2(f).nfa) :
                              q1 < q2
                        /\ \A q \in States(Built(f)) :
                              \/ Out(Built(f), q) \cap Frag1(f).nfa.transition = {}
                              \/ Out(Built(f), q) \cap Frag2(f).nfa.transition = {}

\* C11 witness: an NFA of at least six states for a tree with a Union and a
\* Concat, both operands of the Concat carrying transitions
C11_Witness ==
    /\ pc = "nfa"
    /\ HasKind(node, "Union")
    /\ HasKind(node, "Concat")
    /\ Cardinality(States(nfa)) >= 6
    /\ \E f \in Fragments(node, NfaContextNew) :
          /\ f.node[1] = "Concat"
          /\ Frag1(f).nfa.transition # {}
          /\ Frag2(f).nfa.transition # {}

\* the sub-trees of the parsed tree of the kind k
FragmentsOf(k) == {f \in Fragments(node, NfaContextNew) : f.node[1] = k}

\* the state an assemble call issues after its operands were assembled up to
\* the context ctx
Fresh(ctx) == ctx.states

\* C12: for Star(sub) with the fragment F of sub, assemble returns the start
\* s, which is one new state, the accepting states of F plus s, and the
\* transitions of F plus an epsilon transition from s to F.start and one from
\* every accepting state of F to F.start; no transition of F is lost.
C12_StarFragment ==
    pc = "nfa" =>
        \A f \in FragmentsOf("Star") :
            LET F == assemble(f.node[2], f.ctx)
                s == Fresh(F.context)
                R == Built(f)
            IN  /\ s \notin States(F.nfa)
                /\ assemble(f.node, f.ctx).context.states = F.context.states + 1
                /\ R.start = s
                /\ R.accepts = F.nfa.accepts \cup {s}
                /\ R.transition = F.nfa.transition
                                    \cup {<<s, None, F.nfa.start>>}
                                    \cup {<<q, None, F.nfa.start>> : q \in F.nfa.accepts}
                /\ F.nfa.transition \subseteq R.transition

\* C12 witness: the whole tree is a Star, and a Star stands over a fragment
\* with two accepting states, both looped back to its start
C12_Witness ==
    /\ pc = "nfa"
    /\ \E f \in FragmentsOf("Star") :
          Cardinality(assemble(f.node[2], f.ctx).nfa.accepts) = 2
    /\ node[1] = "Star"
    /\ Cardinality(nfa.transition) >= 5

\* C13: for Union(n1, n2) with the fragments F1 and F2, assemble returns the
\* start s, which is one new state, the accepting states of F1 and of F2, and
\* the transitions of F1 and of F2 plus the two epsilon transitions from s to
\* F1.start and to F2.start.
C13_UnionFragment ==
    pc = "nfa" =>
        \A f \in FragmentsOf("Union") :
            LET F1 == Frag1(f)
                F2 == Frag2(f)
                s == Fresh(F2.context)
                R == Built(f)
            IN  /\ s \notin States(F1.nfa) \cup States(F2.nfa)
                /\ assemble(f.node, f.ctx).context.states = F2.context.states + 1
                /\ R.start = s
                /\ R.accepts = F1.nfa.accepts \cup F2.nfa.accepts
                /\ R.transition = F1.nfa.transition \cup F2.nfa.transition
                                    \cup {<<s, None, F1.nfa.start>>,
                                          <<s, None, F2.nfa.start>>}

\* C13 witness: a Union of two operands that both carry a character
\* transition, as the whole tree
C13_Witness ==
    /\ pc = "nfa"
    /\ node[1] = "Union"
    /\ HasKind(node[2], "Character")
    /\ HasKind(node[3], "Character")
    /\ Cardinality(nfa.accepts) = 2

\* C14: for Concat(n1, n2) with the fragments F1 and F2, assemble issues no
\* new state and returns the start of F1, exactly the accepting states of F2
\* (none of F1), and the transitions of F1 and of F2 plus one epsilon
\* transition from every accepting state of F1 to F2.start.
C14_ConcatFragment ==
    pc = "nfa" =>
        \A f \in FragmentsOf("Concat") :
            LET F1 == Frag1(f)
                F2 == Frag2(f)
                R == Built(f)
            IN  /\ assemble(f.node, f.ctx).context = F2.context
                /\ States(R) = States(F1.nfa) \cup States(F2.nfa)
                /\ R.start = F1.nfa.start
                /\ R.accepts = F2.nfa.accepts
                /\ R.accepts \cap F1.nfa.accepts = {}
                /\ R.transition = F1.nfa.transition \cup F2.nfa.transition
                                    \cup {<<q, None, F2.nfa.start>> : q \in F1.nfa.accepts}

\* C14 witness: a Concat, as the whole tree, whose left operand has two
\* accepting states
C14_Witness ==
    /\ pc = "nfa"
    /\ node[1] = "Concat"
    /\ Cardinality(Frag1([node |-> node, ctx |-> NfaContextNew]).nfa.accepts) = 2
    /\ nfa.accepts # {}

\* C15: for a leaf, assemble issues exactly two new states, the start first
\* and the accepting state second, and returns that start, the one accepting
\* state and exactly one transition from the start to it: labelled with the
\* character for Character(c), an epsilon transition for Empty.
C15_LeafFragment ==
    pc = "nfa" =>
        \A f \in FragmentsOf("Character") \cup FragmentsOf("Empty") :
            LET s == f.ctx.states
                a == f.ctx.states + 1
                R == Built(f)
            IN  /\ assemble(f.node, f.ctx).context.states = f.ctx.states + 2
                /\ R.start = s
                /\ R.accepts = {a}
                /\ R.transition =
                      {<<s, IF f.node[1] = "Character" THEN Some(f.node[2]) ELSE None, a>>}

\* C15 witness: a tree with a Character leaf and an Empty leaf, the second
\* leaf assembled from a counter that is not zero
C15_Witness ==
    /\ pc = "nfa"
    /\ FragmentsOf("Character") # {}
    /\ \E f \in FragmentsOf("Empty") : f.ctx.states > 0
    /\ Cardinality(nfa.transition) >= 4

\* the table tr has at most one target for every (state, symbol) pair
Deterministic(tr) ==
    \A t1, t2 \in tr : (t1[1] = t2[1] /\ t1[2] = t2[2]) => t1 = t2

\* C16: the transition table of from_nfa, while it is built and in the DFA
\* returned, has at most one target for every (state, symbol) pair, and no
\* turn of the worklist loop removes an entry or replaces its target, also
\* when it expands a set that was expanded before.
C16_TransitionsNeverReplaced ==
    [][/\ Deterministic(transition')
       /\ Deterministic(dfa'.transition)
       /\ pc' = "compiled" => dfa'.transition = transition
       /\ (pc = "worklist" /\ pc' = "worklist") => transition \subseteq transition']_vars

\* C16 witness: a set was expanded twice, and transitions on two characters
\* are recorded for it
C16_Witness ==
    /\ pc = "compiled"
    /\ \E i, j \in 1..Len(expanded) :
          /\ i < j
          /\ expanded[i] = expanded[j]
          /\ \E t \in dfa.transition : t[1] = expanded[i]
    /\ \E t1, t2 \in dfa.transition : t1[2] # t2[2]

\* C17: no step of a matches call changes the DFA of the Regex, and every
\* call, whether it follows other calls or runs interleaved with another one,
\* returns what the call returns alone on a freshly compiled Regex: whether
\* the text belongs to the language of the pattern, which is also what the
\* run of the unchanged DFA over the text gives.
C17_MatchesLeavesDfaUnchanged ==
    [][/\ Compiled => (dfa' = dfa /\ context' = context /\ nfa' = nfa)
       /\ pc' = "matched" =>
             /\ result' <=> InLanguage(node', text')
             /\ result' <=> DfaAccepts(dfa', text')
       /\ second'.pc = "matched" =>
             /\ second'.result <=> InLanguage(node', second'.text)
             /\ second'.result <=> DfaAccepts(dfa', second'.text)]_vars

\* C17 witness: the second call has finished with the answer true on a text
\* of two characters while the first call is in the middle of a different
\* text of three characters
C17_Witness ==
    /\ pc = "matching"
    /\ pos = 1
    /\ Len(text) = 3
    /\ second.pc = "matched"
    /\ second.result
    /\ Len(second.text) = 2
    /\ second.text # Prefix(text, 2)

RECURSIVE EscapedTokens(_)
\* the tokens of the pattern text src: a backslash and the character after it
\* are one Character token of that character, the four operator characters
\* are their tokens, any other character is a Character token; a backslash
\* at the very end has no token
EscapedTokens(src) ==
    IF src = <<>> THEN <<>>
    ELSE IF Head(src) = "\\"
         THEN IF Len(src) = 1 THEN <<>>
              ELSE <<TokenCharacter(src[2])>> \o EscapedTokens(Tail(Tail(src)))
         ELSE <<CASE Head(src) = "|" -> UnionOp
                  [] Head(src) = "(" -> LeftParen
                  [] Head(src) = ")" -> RightParen
                  [] Head(src) = "*" -> StarOp
                  [] OTHER -> TokenCharacter(Head(src))>> \o EscapedTokens(Tail(src))

\* the text a pattern of Character tokens only stands for
Unescaped(src) == [i \in 1..Len(EscapedTokens(src)) |-> EscapedTokens(src)[i][2]]

\* the pattern text src has no operator character outside an escape
OnlyLiterals(src) ==
    \A i \in 1..Len(EscapedTokens(src)) : IsCharacterToken(EscapedTokens(src)[i])

\* C18: the scans of a Lexer return, in order, one Character(c) for every
\* backslash followed by c (whatever c is), never a token for the backslash
\* itself, and End for every scan after the source is used up; so a pattern
\* of plain and escaped characters matches exactly the text of those
\* characters, and every pattern matches the texts of the language of its
\* tree, the text holding operator characters and backslashes or not.
C18_EscapeYieldsCharacter ==
    /\ pc \in {"scanning", "panicked"} =>
          \A i \in 1..Len(tokens) :
              tokens[i] = IF i <= Len(EscapedTokens(pattern))
                          THEN EscapedTokens(pattern)[i] ELSE End
    /\ (pc = "scanning" /\ lex = <<>>) => Len(tokens) >= Len(EscapedTokens(pattern))
    /\ pc = "matched" =>
          /\ result <=> InLanguage(node, text)
          /\ OnlyLiterals(pattern) => (result <=> text = Unescaped(pattern))

\* C18 witness: a pattern of a plain character and an escaped operator
\* character or backslash matched the text of these two characters
C18_Witness ==
    /\ pc = "matched"
    /\ result
    /\ Len(pattern) = 3
    /\ Len(text) = 2
    /\ text[2] \in {"|", "(", ")", "*", "\\"}
    /\ text[1] \in {"a", "b"}

\* what Parser::new and parse return for the pattern text src
Parsed(src) ==
    LET p0 == ParserNew(LexerNew(src))
    IN  IF p0.st = "Panic" THEN p0 ELSE parse(p0.parser)

RECURSIVE TopLevelBar(_, _)
\* items, read at the nesting depth d, hold a "|" outside all parentheses
TopLevelBar(items, d) ==
    IF items = <<>> THEN FALSE
    ELSE CASE Head(items) = "(" -> TopLevelBar(Tail(items), d + 1)
           [] Head(items) = ")" -> TopLevelBar(Tail(items), IF d = 0 THEN 0 ELSE d - 1)
           [] Head(items) = "|" -> d = 0 \/ TopLevelBar(Tail(items), d)
           [] OTHER -> TopLevelBar(Tail(items), d)

\* the pattern text without its last character
Front(src) == SubSeq(src, 1, Len(src) - 1)

\* pattern is x followed by "|" for a sub-pattern x that parses
TrailingBar ==
    /\ pattern # <<>>
    /\ pattern[Len(pattern)] = "|"
    /\ Parsed(Front(pattern)).st = "Ok"

\* pattern is "|" followed by a sub-pattern that parses
LeadingBar ==
    /\ pattern # <<>>
    /\ pattern[1] = "|"
    /\ Parsed(Tail(pattern)).st = "Ok"

\* pattern is a sub-pattern that parses, in parentheses
Grouped ==
    /\ Len(pattern) >= 2
    /\ pattern[1] = "("
    /\ pattern[Len(pattern)] = ")"
    /\ Parsed(Front(Tail(pattern))).st = "Ok"

\* parse has just returned
AfterParse == pc \in {"parsed", "err", "panicked"}

\* the parts of C19 on nothing before "|", nothing in a group, and matching
EmptyAlternativeElsewhere ==
    /\ (AfterParse /\ (TrailingBar \/ LeadingBar \/ Grouped)) => pc = "parsed"
    /\ (pc = "parsed" /\ LeadingBar) =>
          node = Union(Empty, Parsed(Tail(pattern)).node)
    /\ (pc = "parsed" /\ Grouped) => node = Parsed(Front(Tail(pattern))).node
    /\ (AfterParse /\ pattern = <<"(", ")">>) => node = Empty
    /\ (pc = "matched" /\ TrailingBar) =>
          (result <=> (text = <<>> \/ InLanguage(Parsed(Front(pattern)).node, text)))
    /\ (pc = "matched" /\ pattern = <<"(", "b", "|", ")">>) =>
          (result <=> text \in {<<>>, <<"b">>})
    /\ (pc = "matched" /\ pattern = <<"a", "(", "b", "|", ")">>) =>
          (result <=> text \in {<<"a">>, <<"a", "b">>})

Move(a, S, c) == UNION {next_states(a, q, Some(c)) : q \in S}

\* C20: every transition recorded by from_nfa from the DFA state of a set S
\* on a symbol c leads to the DFA state of exactly the epsilon-closure of
\* move(S, c): the target set holds no NFA state that is not reached by one
\* c-transition from a state of S followed by epsilon transitions.
C20_TargetIsClosureOfMove ==
    pc \in {"worklist", "compiled"} =>
        \A t \in transition :
            NfaSetOf(context, t[3])
                = EClosure(nfa, Move(nfa, NfaSetOf(context, t[1]), t[2]))

\* the epsilon transitions of the NFA a
Epsilons(a) == {t \in a.transition : t[2] = None}

RECURSIVE Pow2(_)
Pow2(n) == IF n = 0 THEN 1 ELSE 2 * Pow2(n - 1)

\* what the three loops of from_nfa have done so far is bounded by the NFA:
\* the start closure pushes at most two states per epsilon transition, the
\* worklist holds at most one set per recorded transition besides the start
\* set, the memo table at most one id per set of NFA states and one more,
\* and a per-symbol closure begins with at most one state per transition and
\* pushes every other state at most once
LoopsBounded ==
    /\ pc = "closure" =>
          Len(start_states) + Len(stack) <= 1 + 2 * Cardinality(Epsilons(nfa))
    /\ pc = "worklist" =>
          /\ Len(expanded) + Len(waiting) <= 1 + Cardinality(transition)
          /\ context.states <= Pow2(Cardinality(States(nfa)))
    /\ pc = "symbol_closure" =>
          symbol.turns + Len(symbol.stack)
              <= Cardinality(nfa.transition) + Cardinality(States(nfa))

\* C21: from_nfa terminates for every NFA, epsilon cycles and epsilon
\* self-loops included, in every iteration order: the start-closure loop,
\* every per-symbol closure loop and the worklist loop each come to an empty
\* stack, after a number of turns bounded by the NFA.
C21_FromNfaTerminates ==
    /\ []LoopsBounded
    /\ (pc \in {"closure", "worklist", "symbol_closure"})
          ~> (pc \in {"compiled", "symbol_closed"})

\* C21 witness: from_nfa has returned for an NFA with an epsilon cycle
\* through its start state, after a start closure of more than one turn
C21_Witness ==
    /\ pc = "compiled"
    /\ Len(start_states) >= 2
    /\ \E t \in Epsilons(nfa) : t[1] = nfa.start
    /\ \E t \in Epsilons(nfa) : t[3] = nfa.start

\* no element occurs twice in the sequence s
NoRepeat(s) == \A i, j \in DOMAIN s : i # j => s[i] # s[j]

\* the DFA state ids of the sets waiting on the worklist, in their order
WaitingIds == [i \in DOMAIN waiting |-> get_state(context, waiting[i]).id]

\* C22: during from_nfa each set of NFA states is pushed onto the worklist at
\* most once and expanded at most once: no set is popped twice, no set waits
\* twice on the worklist, and no set that has been expanded is waiting.
C22_SetsPushedOnce ==
    pc \in {"worklist", "compiled"} =>
        /\ NoRepeat(expanded)
        /\ NoRepeat(WaitingIds)
        /\ Range(WaitingIds) \cap Range(expanded) = {}

\* C23: the start state of the DFA that from_nfa returns is the DFA state of
\* the epsilon-closure of {nfa.start}, nfa.start included, and its id is 0,
\* the first id of the fresh memo table.
C23_StartIsClosureOfStart ==
    pc = "compiled" =>
        /\ dfa.start = 0
        /\ NfaSetOf(context, dfa.start) = EClosure(nfa, {nfa.start})
        /\ nfa.start \in NfaSetOf(context, dfa.start)

\* C23 witness: from_nfa has returned a DFA of several states for an NFA whose
\* start state is not NFAState(0) and has epsilon transitions to other states
C23_Witness ==
    /\ pc = "compiled"
    /\ nfa.start # 0
    /\ Cardinality(EClosure(nfa, {nfa.start})) >= 2
    /\ context.states >= 2

\* C24: from_nfa creates no DFA state for the empty set of NFA states and
\* records no transition into one: a (state, symbol) pair has an entry only
\* when some NFA state of the source set has a transition on the symbol, so
\* the only form of rejection is a missing entry.
C24_NoStateForEmptySet ==
    pc \in {"worklist", "compiled"} =>
        /\ \A k \in DOMAIN context.statemap : k # <<>>
        /\ \A t \in transition :
              /\ NfaSetOf(context, t[3]) # {}
              /\ \E q \in NfaSetOf(context, t[1]) :
                    next_states(nfa, q, Some(t[2])) # {}

\* C24 witness: from_nfa has returned a DFA with a transition, and with a
\* state and a symbol of the NFA that have no entry
C24_Witness ==
    /\ pc = "compiled"
    /\ dfa.transition # {}
    /\ \E q \in DfaStates(dfa) :
          \E t \in nfa.transition :
             /\ t[2] # None
             /\ next_state(dfa, q, t[2][1]) = None

\* the DFAs d1 and d2 are equal after a renaming of the state ids that keeps
\* the start state
Isomorphic(d1, d2) ==
    /\ Cardinality(DfaStates(d1)) = Cardinality(DfaStates(d2))
    /\ Cardinality(d1.transition) = Cardinality(d2.transition)
    /\ \E f \in [DfaStates(d1) \cup d1.accepts -> DfaStates(d2) \cup d2.accepts] :
          /\ \A p, q \in DOMAIN f : f[p] = f[q] => p = q
          /\ f[d1.start] = d2.start
          /\ {<<f[t[1]], t[2], f[t[3]]>> : t \in d1.transition} = d2.transition
          /\ {f[q] : q \in d1.accepts} = d2.accepts

\* C25: the DFA from_nfa builds from an NFA does not depend on the iteration
\* order of hash sets and hash maps, but for the names of the states other
\* than the start: two runs on one NFA give DFAs with start = 0, with as many
\* states and transitions, equal after a renaming of the state ids.
C25_RunsAgreeUpToRenaming ==
    (pc = "compiled" /\ earlier # <<>>) =>
        /\ earlier[1].start = 0
        /\ dfa.start = 0
        /\ Isomorphic(earlier[1], dfa)

\* the states of the NFA a that a symbol transition leaves
SymbolSources(a) == {t[1] : t \in {u \in a.transition : u[2] # None}}

\* C26: in an NFA that from_node returns no state has both a symbol
\* transition and an epsilon transition leaving it: a state with a symbol
\* transition is the start of a Character fragment, and is neither an
\* accepting state of a fragment nor the start of a Star or Union fragment,
\* the only states that epsilon transitions are added from.
C26_NoSymbolAndEpsilon ==
    pc = "nfa" =>
        \A q \in SymbolSources(nfa) :
            /\ \A t \in Out(nfa, q) : t[2] # None
            /\ \E f \in FragmentsOf("Character") : Built(f).start = q
            /\ \A f \in Fragments(node, NfaContextNew) :
                  /\ q \notin Built(f).accepts
                  /\ f.node[1] \in {"Star", "Union"} => Built(f).start # q

\* C26 witness: an NFA with symbol transitions whose sources are entered by
\* epsilon transitions, one of them added by a Star, and with states that
\* epsilon transitions leave
C26_Witness ==
    /\ pc = "nfa"
    /\ FragmentsOf("Star") # {}
    /\ Cardinality(SymbolSources(nfa)) >= 2
    /\ \A q \in SymbolSources(nfa) : \E t \in Epsilons(nfa) : t[3] = q
    /\ Cardinality(Epsilons(nfa)) >= 3

=============================================================================
